---- MODULE Spec2Model ----
(***************************************************************************)
(* SmarTriageGantt: the Streamlit dashboards (app.py, gantt_app.py) and    *)
(* the e-mail digest script (send_gantt_summary.py).                       *)
(*                                                                         *)
(* Dates are proleptic Gregorian ordinals (datetime.date.toordinal): the   *)
(* code's Timestamps carry no time of day, so `a - b` in days and          *)
(* `a + timedelta(days=n)` are integer subtraction and addition.           *)
(* Python floats are modelled as exact rationals [num, den] in lowest      *)
(* terms; the quotients the code forms (days_passed / duration, times 100) *)
(* are compared and ordered as rationals.                                  *)
(***************************************************************************)
EXTENDS Integers, Sequences, FiniteSets, TLC

VARIABLES
    today,        \* the calendar date datetime.today().date() returns now
    file,         \* content of the Excel workbook the scripts read
    variant,      \* which dashboard script the server runs: "app" or "gantt_app"
    cache,        \* st.cache_data entry of load_data(FILE_PATH), or NoEntry
    session,      \* st.session_state of the browser session
    run,          \* what the last dashboard script run computed
    env,          \* which of the three mail settings are present and non-empty
    mail,         \* what the last run of send_gantt_summary.py did
    pStart,       \* calculate_progress: row['Start']
    pDuration,    \* calculate_progress: row['Duration']
    pToday,       \* calculate_progress: today
    pProgress     \* calculate_progress: the value returned

vars == <<today, file, variant, cache, session, run, env, mail,
          pStart, pDuration, pToday, pProgress>>

dashVars == <<today, file, variant, cache, session, run>>
mailVars == <<env, mail>>
progVars == <<pStart, pDuration, pToday, pProgress>>

-----------------------------------------------------------------------------
(* Bounds of the model *)

MaxDuration == 11     \* durations range over -2 .. MaxDuration
MaxLead == 2          \* today starts at most MaxLead days before the start
MaxSpan == 14         \* today advances to at most start + MaxSpan
MaxRows == 2          \* data rows of the workbook
MaxTicks == 2         \* days the dashboard server stays up after the first run
MaxKey == 2           \* cap on session chart_key
MailDays == 8         \* days sampled for the e-mail script's TODAY

-----------------------------------------------------------------------------
(* Calendar: datetime's ordinal arithmetic *)

Min(a, b) == IF a <= b THEN a ELSE b
Max(a, b) == IF a >= b THEN a ELSE b

IsLeap(y) == y % 4 = 0 /\ (y % 100 # 0 \/ y % 400 = 0)

DaysInMonth(y, m) ==
    IF m = 2 THEN (IF IsLeap(y) THEN 29 ELSE 28)
    ELSE IF m \in {4, 6, 9, 11} THEN 30 ELSE 31

RECURSIVE DaysBeforeMonth(_, _)
DaysBeforeMonth(y, m) ==
    IF m = 1 THEN 0 ELSE DaysBeforeMonth(y, m - 1) + DaysInMonth(y, m - 1)

DaysBeforeYear(y) ==
    (y - 1) * 365 + ((y - 1) \div 4) - ((y - 1) \div 100) + ((y - 1) \div 400)

\* date(y, m, d).toordinal()
Ymd2Ord(y, m, d) == DaysBeforeYear(y) + DaysBeforeMonth(y, m) + d

\* year of date.fromordinal(n)
OrdYear(n) ==
    LET n0   == n - 1
        n400 == n0 \div 146097
        r400 == n0 % 146097
        n100 == r400 \div 36524
        r100 == r400 % 36524
        n4   == r100 \div 1461
        r4   == r100 % 1461
        n1   == r4 \div 365
        y    == n400 * 400 + 1 + n100 * 100 + n4 * 4 + n1
    IN  IF n1 = 4 \/ n100 = 4 THEN y - 1 ELSE y

\* month of date.fromordinal(n)
OrdMonth(n) ==
    LET y == OrdYear(n)
        k == n - DaysBeforeYear(y)
    IN  CHOOSE m \in 1..12 :
            DaysBeforeMonth(y, m) < k /\ k <= DaysBeforeMonth(y, m) + DaysInMonth(y, m)

\* Timestamp.replace(day=1)
ReplaceDay1(n) == Ymd2Ord(OrdYear(n), OrdMonth(n), 1)

\* Timestamp.dayofweek: Monday = 0 .. Sunday = 6
DayOfWeek(n) == (n + 6) % 7

-----------------------------------------------------------------------------
(* Floats as rationals *)

RECURSIVE Gcd(_, _)
Gcd(a, b) == IF b = 0 THEN a ELSE Gcd(b, a % b)

Abs(a) == IF a < 0 THEN -a ELSE a

\* n / d for d > 0, in lowest terms
Rat(n, d) ==
    LET g == Gcd(Abs(n), d)
    IN  [num |-> n \div g, den |-> d \div g]

RatLe(p, q) == p.num * q.den <= q.num * p.den
RatMin(p, q) == IF RatLe(p, q) THEN p ELSE q
RatTimes(p, k) == Rat(p.num * k, p.den)

Zero == Rat(0, 1)
One == Rat(1, 1)

-----------------------------------------------------------------------------
(* calculate_progress(row, today): app.py 52-64, gantt_app.py 31-50 *)

calculate_progress_no_start_day(start_date, duration, tday) ==
    IF tday < start_date THEN Zero
    ELSE IF duration <= 0 THEN Zero
    ELSE LET days_passed == tday - start_date
             progress    == Rat(days_passed, duration)
         IN  RatTimes(RatMin(progress, One), 100)

calculate_progress_no_future_check(start_date, duration, tday) ==
    IF duration <= 0 THEN Zero
    ELSE LET days_passed == (tday - start_date) + 1
             progress    == Rat(days_passed, duration)
         IN  RatTimes(RatMin(progress, One), 100)

calculate_progress_no_cap(start_date, duration, tday) ==
    IF tday < start_date THEN Zero
    ELSE IF duration <= 0 THEN Zero
    ELSE LET days_passed == (tday - start_date) + 1
             progress    == Rat(days_passed, duration)
         IN  RatTimes(progress, 100)

calculate_progress(start_date, duration, tday) ==
    IF tday < start_date THEN Zero
    ELSE IF duration <= 0 THEN Zero
    ELSE LET days_passed == (tday - start_date) + 1
             progress    == Rat(days_passed, duration)
         IN  RatTimes(RatMin(progress, One), 100)

-----------------------------------------------------------------------------
(* The workbook.  A cell holds a value pandas reads as a date / a number     *)
(* ("val"), is empty ("nan"), or holds text that is neither ("str").  Every  *)
(* data row carries a milestone description and a category, so no row is     *)
(* blank in every column.                                                    *)

Val(v) == [k |-> "val", v |-> v]
NaN == [k |-> "nan", v |-> 0]
Str == [k |-> "str", v |-> 0]

Row(s, d) == [start |-> s, days |-> d]

AllCols == {"Milestone description", "Category", "Start", "Days"}

Book(c, r) == [exists |-> TRUE, cols |-> c, rows |-> r]
NoBook == [exists |-> FALSE, cols |-> {}, rows |-> <<>>]

May28 == Ymd2Ord(2025, 5, 28)
Jun09 == Ymd2Ord(2025, 6, 9)
Jun10 == Ymd2Ord(2025, 6, 10)
Jun11 == Ymd2Ord(2025, 6, 11)
Jun12 == Ymd2Ord(2025, 6, 12)

RowChoices ==
    { Row(Val(May28), Val(20)),     \* a long task begun last month
      Row(Val(Jun09), Val(1)),      \* a one-day task
      Row(Val(Jun10), Val(-3)),     \* a negative duration
      Row(Val(Jun11), Val(0)),      \* a zero duration
      Row(NaN, Val(5)),             \* no start date
      Row(Val(Jun12), NaN),         \* no duration
      Row(Val(Jun11), Str),         \* duration is text
      Row(Str, Val(3)) }            \* start is text

RowSeqs == UNION { [1..n -> RowChoices] : n \in 0..MaxRows }

ColChoices == {AllCols, AllCols \ {"Days"}, AllCols \ {"Category"}}

\* every workbook the e-mail script is run on
Files == {NoBook} \cup { Book(c, r) : c \in ColChoices, r \in RowSeqs }

\* the versions of GANTT_TAI.xlsx the dashboard server sees over time
Workbooks ==
    { NoBook,
      Book(AllCols \ {"Days"}, << Row(Val(Jun09), NaN) >>),
      Book(AllCols, << Row(Val(May28), Val(20)), Row(Val(Jun09), Val(1)) >>),
      Book(AllCols, << Row(Val(Jun09), Val(4)) >>),
      Book(AllCols, << Row(Val(Jun09), Val(4)), Row(Val(Jun10), Val(-3)) >>),
      Book(AllCols, << Row(Val(Jun09), Val(4)), Row(Val(Jun11), Str) >>),
      Book(AllCols, << Row(NaN, Val(5)), Row(Val(Jun12), NaN) >>) }

-----------------------------------------------------------------------------
(* pandas steps shared by the three loaders *)

\* df.dropna(how='all').dropna(axis=1, how='all'); df.columns.str.strip():
\* a column survives when some row holds a value in it
CleanCols(f) ==
    { c \in f.cols :
        IF c = "Start" THEN \E i \in 1..Len(f.rows) : f.rows[i].start.k # "nan"
        ELSE IF c = "Days" THEN \E i \in 1..Len(f.rows) : f.rows[i].days.k # "nan"
        ELSE Len(f.rows) > 0 }

HasBoth(r) == r.start.k # "nan" /\ r.days.k # "nan"

\* df.dropna(subset=['Start', 'Days'])
DropNa(rows) == SelectSeq(rows, HasBoth)

\* pd.to_datetime / pd.to_numeric without errors='coerce' raise on text
Unconvertible(rows) ==
    \E i \in 1..Len(rows) : rows[i].start.k = "str" \/ rows[i].days.k = "str"

IsVal(r) == r.start.k = "val" /\ r.days.k = "val"

\* errors='coerce' turns text into NaT / NaN; the second dropna removes the row
CoerceDropNa(rows) == SelectSeq(rows, IsVal)

-----------------------------------------------------------------------------
(* load_data(excel_file): app.py 66-123, gantt_app.py 53-114 *)

RelevantCols == {"Milestone description", "Category", "Start", "Days"}

Failed(m) == [msg |-> m, df |-> <<>>]

\* row['Start'] + timedelta(days=row['Duration'])
ChartFinish(start, duration) == start + duration

GanttRow(r, tday) ==
    [ Start    |-> r.start.v,
      Duration |-> r.days.v,
      Finish   |-> ChartFinish(r.start.v, r.days.v),
      Progress |-> calculate_progress(r.start.v, r.days.v, tday) ]

load_data(f, tday) ==
    IF ~f.exists THEN Failed("file_not_found")
    ELSE IF ~(RelevantCols \subseteq CleanCols(f)) THEN Failed("missing_columns")
    ELSE LET df == DropNa(f.rows)
         IN  IF df = <<>> THEN Failed("no_valid_tasks")
             ELSE IF Unconvertible(df) THEN Failed("read_error")
             ELSE [ msg |-> "ok",
                    df  |-> [i \in 1..Len(df) |-> GanttRow(df[i], tday)] ]

-----------------------------------------------------------------------------
(* The dashboard script, top to bottom: app.py 126-257, gantt_app.py 116-238 *)

NoEntry == [filled |-> FALSE, res |-> Failed("none"), src |-> NoBook, day |-> 0]
NoSession == [init |-> FALSE, view_option |-> "All", chart_key |-> 0]
NoRun ==
    [ shown |-> FALSE, today_date |-> 0, df |-> <<>>, msg |-> "none",
      view |-> "All", range |-> <<0, 0>>, key |-> 0,
      src |-> NoBook, file |-> NoBook, day |-> 0, click |-> "none" ]

RECURSIVE SeqMin(_, _)
SeqMin(df, col) ==
    IF Len(df) = 1 THEN df[1][col]
    ELSE Min(df[1][col], SeqMin(Tail(df), col))

RECURSIVE SeqMax(_, _)
SeqMax(df, col) ==
    IF Len(df) = 1 THEN df[1][col]
    ELSE Max(df[1][col], SeqMax(Tail(df), col))

\* the x-axis range of the chart: app.py 138-141 and 212-223
ViewRange_week_from_today(view_option, today_date, df) ==
    LET project_start_date  == SeqMin(df, "Start")
        project_start_month == ReplaceDay1(project_start_date)
        project_end_date    == SeqMax(df, "Finish")
    IN  IF view_option = "1W" THEN <<today_date, today_date + 7>>
        ELSE IF view_option = "1M" THEN <<today_date - 1, today_date + 30>>
        ELSE IF view_option = "3M" THEN <<today_date - 1, today_date + 90>>
        ELSE <<project_start_month - 7, project_end_date + 15>>

ViewRange(view_option, today_date, df) ==
    LET project_start_date  == SeqMin(df, "Start")
        project_start_month == ReplaceDay1(project_start_date)
        project_end_date    == SeqMax(df, "Finish")
    IN  IF view_option = "1W" THEN <<today_date - 1, today_date + 7>>
        ELSE IF view_option = "1M" THEN <<today_date - 1, today_date + 30>>
        ELSE IF view_option = "3M" THEN <<today_date - 1, today_date + 90>>
        ELSE <<project_start_month - 7, project_end_date + 15>>

\* st.cache_data.clear() opens gantt_app.py; app.py keeps the entry
EntryAtStart == IF variant = "gantt_app" THEN NoEntry ELSE cache

\* load_data(FILE_PATH) under @st.cache_data: the entry is keyed by the path
\* argument alone, and a hit returns the stored frame and replays its message
CachedLoad(entry) ==
    IF entry.filled THEN entry
    ELSE [filled |-> TRUE, res |-> load_data(file, today), src |-> file, day |-> today]

\* 'view_option' / 'chart_key' not in st.session_state
InitSession(s) ==
    IF s.init THEN s ELSE [init |-> TRUE, view_option |-> "All", chart_key |-> 0]

\* one run of the script in a session whose state is s, started by a click
\* on button b ("none": by opening the page)
ScriptRun(s, b) ==
    LET entry == CachedLoad(EntryAtStart)
        df_processed == entry.res.df
        ss == InitSession(s)
    IN  /\ cache' = entry
        /\ session' = ss
        /\ run' = IF df_processed # <<>>
                  THEN [ shown      |-> TRUE,
                         today_date |-> today,
                         df         |-> df_processed,
                         msg        |-> entry.res.msg,
                         view       |-> ss.view_option,
                         range      |-> ViewRange(ss.view_option, today, df_processed),
                         key        |-> ss.chart_key,
                         src        |-> entry.src,
                         file       |-> file,
                         day        |-> entry.day,
                         click      |-> b ]
                  ELSE [NoRun EXCEPT !.msg = entry.res.msg, !.today_date = today,
                                     !.src = entry.src, !.file = file, !.day = entry.day,
                                     !.click = b]

\* set_view(view)
set_view(s, view) == [s EXCEPT !.view_option = view]

\* restart_chart()
restart_chart_same_key(s) == [s EXCEPT !.view_option = "All"]

restart_chart(s) == [s EXCEPT !.view_option = "All", !.chart_key = s.chart_key + 1]

\* on_click of the "All" and "Restart" buttons
OnAllOrRestart(s) == IF variant = "app" THEN restart_chart(s) ELSE set_view(s, "All")

-----------------------------------------------------------------------------
(* Actions of the dashboard *)

\* midnight passes
Tick ==
    /\ today < Jun10 + MaxTicks
    /\ today' = today + 1
    /\ UNCHANGED <<file, variant, cache, session, run, mailVars, progVars>>

\* somebody saves, replaces or removes the workbook
EditFile ==
    /\ \E f \in Workbooks \ {file} : file' = f
    /\ UNCHANGED <<today, variant, cache, session, run, mailVars, progVars>>

\* a browser opens the page: a new session, one script run
Open ==
    /\ ScriptRun(NoSession, "none")
    /\ UNCHANGED <<today, file, variant, mailVars, progVars>>

\* the buttons exist only on a page that drew the chart
ClickAll ==
    /\ run.shown /\ session.init
    /\ variant = "app" => session.chart_key < MaxKey
    /\ ScriptRun(OnAllOrRestart(session), "All")
    /\ UNCHANGED <<today, file, variant, mailVars, progVars>>

Click3M ==
    /\ run.shown /\ session.init
    /\ ScriptRun(set_view(session, "3M"), "3M")
    /\ UNCHANGED <<today, file, variant, mailVars, progVars>>

Click1M ==
    /\ run.shown /\ session.init
    /\ ScriptRun(set_view(session, "1M"), "1M")
    /\ UNCHANGED <<today, file, variant, mailVars, progVars>>

Click1W ==
    /\ run.shown /\ session.init
    /\ ScriptRun(set_view(session, "1W"), "1W")
    /\ UNCHANGED <<today, file, variant, mailVars, progVars>>

ClickRestart ==
    /\ run.shown /\ session.init
    /\ variant = "app" => session.chart_key < MaxKey
    /\ ScriptRun(OnAllOrRestart(session), "Restart")
    /\ UNCHANGED <<today, file, variant, mailVars, progVars>>

NoMail ==
    [ ran |-> FALSE, TODAY |-> 0, outcome |-> "none", tasks |-> <<>>,
      start_of_week |-> 0, end_of_week |-> 0,
      starting_today |-> {}, ending_today |-> {}, active_today |-> {},
      starting_this_week |-> {}, ending_this_week |-> {}, active_this_week |-> {},
      smtp |-> <<>>, tried |-> <<>>, log |-> <<>> ]

Init ==
    /\ today = Jun10
    /\ file \in Workbooks
    /\ variant \in {"app", "gantt_app"}
    /\ cache = NoEntry
    /\ session = NoSession
    /\ run = NoRun
    /\ env = {} /\ mail = NoMail
    /\ pStart = 0 /\ pDuration = 0 /\ pToday = 0 /\ pProgress = Zero

Next ==
    \/ Tick
    \/ EditFile
    \/ Open
    \/ ClickAll
    \/ Click3M
    \/ Click1M
    \/ Click1W
    \/ ClickRestart

Spec == Init /\ [][Next]_vars

-----------------------------------------------------------------------------
(* send_gantt_summary.py *)

MailCols == {"Milestone description", "Start", "Days"}

\* row['Start'] + timedelta(days=max(0, row['Days'] - 1))
MailFinish_unclamped(start, days) == start + (days - 1)

MailFinish(start, days) == start + Max(0, days - 1)

MailRow(r) ==
    [Start |-> r.start.v, Days |-> r.days.v, Finish |-> MailFinish(r.start.v, r.days.v)]

\* TODAY - pd.to_timedelta(TODAY.dayofweek, unit='d')
StartOfWeek(tday) == tday - DayOfWeek(tday)

\* start_of_week + pd.to_timedelta(6, unit='d')
EndOfWeek(tday) == StartOfWeek(tday) + 6

\* the six filters of create_task_report, each on one row
ActiveToday(t, tday) == t.Start <= tday /\ t.Finish >= tday
EndingToday(t, tday) == t.Finish = tday
StartingToday(t, tday) == t.Start = tday
EndingThisWeek(t, sow, eow) == t.Finish >= sow /\ t.Finish <= eow
StartingThisWeek(t, sow, eow) == t.Start >= sow /\ t.Start <= eow
ActiveThisWeek_contained(t, sow, eow) == t.Start >= sow /\ t.Finish <= eow
ActiveThisWeek(t, sow, eow) == t.Start <= eow /\ t.Finish >= sow

Report(tasks, tday) ==
    LET sow == StartOfWeek(tday)
        eow == EndOfWeek(tday)
        I   == 1..Len(tasks)
    IN  [ NoMail EXCEPT
            !.outcome = "report",
            !.tasks = tasks,
            !.start_of_week = sow,
            !.end_of_week = eow,
            !.active_today = {i \in I : ActiveToday(tasks[i], tday)},
            !.ending_today = {i \in I : EndingToday(tasks[i], tday)},
            !.starting_today = {i \in I : StartingToday(tasks[i], tday)},
            !.ending_this_week = {i \in I : EndingThisWeek(tasks[i], sow, eow)},
            !.starting_this_week = {i \in I : StartingThisWeek(tasks[i], sow, eow)},
            !.active_this_week = {i \in I : ActiveThisWeek(tasks[i], sow, eow)} ]

NoReport(m) == [NoMail EXCEPT !.outcome = m]

\* create_task_report().  With every row dropped, line 61 assigns the result of
\* DataFrame.apply on an empty frame, which is a frame and not a column:
\* depending on the pandas build the assignment (or the .dt access after it)
\* raises, or an empty report is produced; `raises` is that choice.
create_task_report(f, tday, raises) ==
    IF ~f.exists THEN NoReport("processing_error")
    ELSE IF ~(MailCols \subseteq CleanCols(f)) THEN NoReport("missing_columns")
    ELSE LET df == CoerceDropNa(DropNa(f.rows))
         IN  IF df = <<>> /\ raises THEN NoReport("processing_error")
             ELSE Report([i \in 1..Len(df) |-> MailRow(df[i])], tday)

Settings == {"GMAIL_USER", "GMAIL_PASS", "RECIPIENT_EMAIL"}

SmtpSteps == <<"connect", "starttls", "login", "sendmail", "quit">>

\* send_email(html_content): the steps of the SMTP session that were begun
\* (tried), those that completed (smtp) and what was printed; step number
\* failAt raises (0: none does) and the except handler ends the function
send_email_no_env_check(e, failAt) ==
    IF failAt = 0
    THEN [smtp |-> SmtpSteps, tried |-> SmtpSteps, log |-> <<"login_ok", "sent">>]
    ELSE [ smtp  |-> SubSeq(SmtpSteps, 1, failAt - 1),
           tried |-> SubSeq(SmtpSteps, 1, failAt),
           log   |-> (IF failAt > 3 THEN <<"login_ok">> ELSE <<>>)
                     \o (IF failAt > 4 THEN <<"sent">> ELSE <<>>)
                     \o <<"send_error">> ]

send_email(e, failAt) ==
    IF e # Settings THEN [smtp |-> <<>>, tried |-> <<>>, log |-> <<"missing_env">>]
    ELSE IF failAt = 0
    THEN [smtp |-> SmtpSteps, tried |-> SmtpSteps, log |-> <<"login_ok", "sent">>]
    ELSE [ smtp  |-> SubSeq(SmtpSteps, 1, failAt - 1),
           tried |-> SubSeq(SmtpSteps, 1, failAt),
           log   |-> (IF failAt > 3 THEN <<"login_ok">> ELSE <<>>)
                     \o (IF failAt > 4 THEN <<"sent">> ELSE <<>>)
                     \o <<"send_error">> ]

\* python send_gantt_summary.py: TODAY is sampled once, at import
RunMail ==
    /\ ~mail.ran
    /\ \E raises \in BOOLEAN, failAt \in 0..Len(SmtpSteps) :
         LET rep == create_task_report(file, today, raises)
             out == IF rep.outcome = "report"
                    THEN LET s == send_email(env, failAt)
                         IN  [ smtp |-> s.smtp, tried |-> s.tried,
                               log |-> <<"report_generated">> \o s.log ]
                    ELSE [ smtp |-> <<>>, tried |-> <<>>,
                           log |-> <<rep.outcome, "report_failed">> ]
         IN  mail' = [rep EXCEPT !.ran = TRUE, !.TODAY = today,
                                 !.smtp = out.smtp, !.tried = out.tried,
                                 !.log = out.log]
    /\ UNCHANGED <<today, file, variant, cache, session, run, env, progVars>>

Jun08 == Ymd2Ord(2025, 6, 8)

InitMail ==
    /\ today \in Jun08 .. Jun08 + MailDays
    /\ file \in Files
    /\ env \in SUBSET Settings
    /\ mail = NoMail
    /\ variant = "app" /\ cache = NoEntry /\ session = NoSession /\ run = NoRun
    /\ pStart = 0 /\ pDuration = 0 /\ pToday = 0 /\ pProgress = Zero

NextMail == RunMail

SpecMail == InitMail /\ [][NextMail]_vars

-----------------------------------------------------------------------------
(* calculate_progress on its own: one task, today advancing day by day *)

Jan01 == Ymd2Ord(2025, 1, 1)

InitProgress ==
    /\ pStart \in Jan01 .. Jan01 + 1
    /\ pDuration \in -2 .. MaxDuration
    /\ pToday \in pStart - MaxLead .. pStart
    /\ pProgress = calculate_progress(pStart, pDuration, pToday)
    /\ today = Jun10 /\ file = NoBook /\ variant = "app"
    /\ cache = NoEntry /\ session = NoSession /\ run = NoRun
    /\ env = {} /\ mail = NoMail

AdvanceDay ==
    /\ pToday < pStart + MaxSpan
    /\ pToday' = pToday + 1
    /\ pProgress' = calculate_progress(pStart, pDuration, pToday')
    /\ UNCHANGED <<pStart, pDuration, dashVars, mailVars>>

NextProgress == AdvanceDay

SpecProgress == InitProgress /\ [][NextProgress]_vars

-----------------------------------------------------------------------------
(* Properties *)

Jan05 == Ymd2Ord(2025, 1, 5)
Jun17 == Ymd2Ord(2025, 6, 17)
Apr24 == Ymd2Ord(2025, 4, 24)

\* C1: for duration_days >= 1 and today >= start the start day counts as day
\* 1: progress = 100 * min((today - start) + 1, duration) / duration; it is
\* nonzero on the start day; and start 2025-01-01, duration 10, today
\* 2025-01-05 gives 50.  (SpecProgress)
C1_StartDayIsDayOne ==
    (pDuration >= 1 /\ pToday >= pStart) =>
        /\ pProgress.num * pDuration =
               100 * Min((pToday - pStart) + 1, pDuration) * pProgress.den
        /\ pToday = pStart => pProgress.num > 0
        /\ (pStart = Jan01 /\ pDuration = 10 /\ pToday = Jan05) =>
               pProgress = [num |-> 50, den |-> 1]

C1_Witness ==
    /\ pStart = Jan01 /\ pDuration = 10 /\ pToday = Jan05
    /\ pProgress = [num |-> 50, den |-> 1]

\* C2: calculate_progress returns exactly 0 whenever duration_days <= 0 and
\* whenever today < start.  (SpecProgress)
C2_ZeroProgress ==
    (pDuration <= 0 \/ pToday < pStart) => pProgress = [num |-> 0, den |-> 1]

C2_Witness ==
    /\ pToday < pStart /\ pDuration > 0
    /\ pProgress = [num |-> 0, den |-> 1]

\* C3: for a task with duration_days > 0, as today advances from start onward
\* progress never decreases, never exceeds 100 and stays at 100 once there.
\* (SpecProgress)
C3_Monotone ==
    /\ [](pDuration > 0 => pProgress.num <= 100 * pProgress.den)
    /\ [][ (pDuration > 0 /\ pToday >= pStart /\ pToday' > pToday) =>
              /\ pProgress.num * pProgress'.den <= pProgress'.num * pProgress.den
              /\ pProgress'.num <= 100 * pProgress'.den
              /\ pProgress = [num |-> 100, den |-> 1] =>
                     pProgress' = [num |-> 100, den |-> 1] ]_vars

C3_Witness ==
    /\ pDuration > 1
    /\ pToday > pStart + pDuration
    /\ pProgress = [num |-> 100, den |-> 1]

\* C4: every task that survives loading has finish >= start, in every variant
\* and for every numeric duration, zero and negative ones included.  (Spec)
C4_FinishNotBeforeStart ==
    \A i \in 1..Len(run.df) : run.df[i].Finish >= run.df[i].Start

\* C5: the chart's range follows from the current preset: 1W, 1M and 3M give
\* today - 1 day to today + 7, 30 and 90 days; All (and anything else) gives
\* the first of the month of the earliest start, less 7 days, to the latest
\* finish plus 15 days; 1W on 2025-06-10 gives (2025-06-09, 2025-06-17).
\* (Spec)
C5_ViewRange ==
    run.shown =>
        LET t     == run.today_date
            I     == 1..Len(run.df)
            first == CHOOSE d \in {run.df[i].Start : i \in I} :
                         \A i \in I : d <= run.df[i].Start
            last  == CHOOSE d \in {run.df[i].Finish : i \in I} :
                         \A i \in I : d >= run.df[i].Finish
            month == run.range[1] + 7
        IN  /\ run.view = session.view_option
            /\ run.view = "1W" => run.range = <<t - 1, t + 7>>
            /\ run.view = "1M" => run.range = <<t - 1, t + 30>>
            /\ run.view = "3M" => run.range = <<t - 1, t + 90>>
            /\ run.view \notin {"1W", "1M", "3M"} =>
                   /\ run.range[2] = last + 15
                   /\ month <= first
                   /\ OrdYear(month) = OrdYear(first)
                   /\ OrdMonth(month) = OrdMonth(first)
                   /\ OrdMonth(month - 1) # OrdMonth(month)
                   /\ first = May28 => run.range[1] = Apr24
            /\ (run.view = "1W" /\ t = Jun10) => run.range = <<Jun09, Jun17>>

C5_Witness ==
    /\ run.shown /\ run.view = "1W" /\ run.today_date = Jun10
    /\ run.range = <<Jun09, Jun17>>

\* C6: in the e-mail report, with start_of_week the Monday on or before today
\* and end_of_week six days later, a task is active this week exactly when
\* start <= end_of_week and finish >= start_of_week, starting this week
\* exactly when start_of_week <= start <= end_of_week, and active today
\* exactly when start <= today <= finish; a task with start = finish =
\* 2025-06-09 seen on 2025-06-12 is in the first two and not in the third.
\* (SpecMail)
C6_Buckets ==
    mail.outcome = "report" =>
        LET t   == mail.TODAY
            sow == mail.start_of_week
            eow == mail.end_of_week
            I   == 1..Len(mail.tasks)
        IN  /\ (sow - Jun09) % 7 = 0
            /\ sow <= t /\ t <= sow + 6
            /\ eow = sow + 6
            /\ \A i \in I :
                 LET s == mail.tasks[i].Start
                     f == mail.tasks[i].Finish
                 IN  /\ i \in mail.active_this_week <=> (s <= eow /\ f >= sow)
                     /\ i \in mail.starting_this_week <=> (sow <= s /\ s <= eow)
                     /\ i \in mail.active_today <=> (s <= t /\ t <= f)
                     /\ (t = Jun12 /\ s = Jun09 /\ f = Jun09) =>
                            /\ i \in mail.active_this_week
                            /\ i \in mail.starting_this_week
                            /\ i \notin mail.active_today

C6_Witness ==
    /\ mail.outcome = "report" /\ mail.TODAY = Jun12
    /\ \E i \in 1..Len(mail.tasks) :
         /\ mail.tasks[i].Start = Jun09 /\ mail.tasks[i].Finish = Jun09
         /\ i \in mail.active_this_week \cap mail.starting_this_week
         /\ i \notin mail.active_today

\* C7: in every run of the dashboard, runs served from the load_data cache on
\* a later day included, every task's progress is calculate_progress at that
\* run's own today, the today of the range and of the today marker.  (Spec)
C7_ProgressOfRunToday ==
    run.shown =>
        \A i \in 1..Len(run.df) :
            run.df[i].Progress =
                calculate_progress(run.df[i].Start, run.df[i].Duration, run.today_date)

\* C8: a run that follows a change of the workbook's content never uses a
\* table derived from the old content.  (Spec)
C8_NoStaleTable == run.src = run.file

\* C9: the loaders report three distinguishable failures: a workbook lacking
\* a required column is reported as missing columns, and one whose rows are
\* all dropped for lacking start or duration is reported as "no valid tasks",
\* an outcome of its own; in the chart loaders and in the e-mail loader.
\* (SpecMail)
C9_DistinctFailures ==
    (mail.ran /\ file.exists) =>
        /\ ~(MailCols \subseteq CleanCols(file)) => mail.outcome = "missing_columns"
        /\ (MailCols \subseteq CleanCols(file) /\ CoerceDropNa(DropNa(file.rows)) = <<>>) =>
               mail.outcome \notin {"report", "processing_error", "missing_columns"}

\* C10: a row whose duration is non-numeric or whose start is unparseable is
\* dropped on its own: the load does not fail and every well-formed row of
\* the workbook is loaded, in every variant's loader.  (Spec)
C10_MalformedRowDroppedAlone ==
    (/\ cache.filled /\ cache.src.exists
     /\ RelevantCols \subseteq CleanCols(cache.src)
     /\ CoerceDropNa(cache.src.rows) # <<>>) =>
        /\ cache.res.msg = "ok"
        /\ Len(cache.res.df) = Len(CoerceDropNa(cache.src.rows))

\* the places of step x in the sequence q
Places(q, x) == {i \in 1..Len(q) : q[i] = x}

\* C11: in the e-mail script, if any of GMAIL_USER, GMAIL_PASS,
\* RECIPIENT_EMAIL is absent or empty the run reports an error and stops
\* without opening an SMTP connection; in any run the mail is submitted at
\* most once, only after a report was generated and only after STARTTLS and
\* then login succeeded, and nothing is tried again after a failure.
\* (SpecMail)
C11_SendOnce ==
    mail.ran =>
        /\ env # Settings =>
               /\ mail.tried = <<>>
               /\ mail.log[Len(mail.log)] \in {"missing_env", "report_failed"}
        /\ \A x \in {SmtpSteps[k] : k \in 1..Len(SmtpSteps)} :
               Cardinality(Places(mail.tried, x)) <= 1
        /\ \A i \in Places(mail.tried, "sendmail") :
               /\ mail.outcome = "report"
               /\ \E j \in Places(mail.smtp, "starttls"), k \in Places(mail.smtp, "login") :
                      j < k /\ k < i
        /\ Len(mail.tried) > Len(mail.smtp) =>
               /\ Len(mail.tried) = Len(mail.smtp) + 1
               /\ mail.log[Len(mail.log)] = "send_error"

C11_Witness ==
    /\ mail.ran /\ mail.outcome = "report"
    /\ env # Settings /\ env # {}
    /\ mail.tried = <<>> /\ mail.log = <<"report_generated", "missing_env">>

\* the view a button stands for
ViewOf(b) == IF b \in {"All", "Restart"} THEN "All" ELSE b

\* C12: from a fresh session (view_option = 'All'), after any sequence of
\* clicks on All, 3M, 1M, 1W and Restart, view_option is one of 'All', '3M',
\* '1M', '1W' and is the view of the most recent click ('All' for All and for
\* Restart); in app.py chart_key changes only on All / Restart clicks, by
\* exactly +1 each, and 3M, 1M, 1W leave it unchanged.  (Spec)
C12_ViewFollowsClick ==
    /\ [](session.init =>
            /\ session.view_option \in {"All", "3M", "1M", "1W"}
            /\ run.click # "none" => session.view_option = ViewOf(run.click)
            /\ run.click = "none" =>
                   session.view_option = "All" /\ session.chart_key = 0
            /\ variant = "gantt_app" => session.chart_key = 0)
    /\ [][ LET d == session'.chart_key - session.chart_key
           IN  /\ (run' # run /\ variant = "app" /\ run'.click \in {"All", "Restart"}) =>
                      d = 1
               /\ (run' # run /\ run'.click \in {"3M", "1M", "1W"}) => d = 0
               /\ run' = run => d = 0
               /\ (session.init /\ d # 0 /\ run'.click # "none") =>
                      variant = "app" /\ run'.click \in {"All", "Restart"} /\ d = 1
         ]_vars

C12_Witness ==
    /\ variant = "app" /\ session.init
    /\ run.click = "1W" /\ session.view_option = "1W"
    /\ session.chart_key >= 1

\* C13: in the e-mail report the buckets are nested, for every task set and
\* every today: starting today and ending today lie within active today;
\* active today, starting this week and ending this week lie within active
\* this week.  (SpecMail)
C13_BucketsNested ==
    mail.outcome = "report" =>
        /\ mail.starting_today \subseteq mail.active_today
        /\ mail.ending_today \subseteq mail.active_today
        /\ mail.active_today \subseteq mail.active_this_week
        /\ mail.starting_this_week \subseteq mail.active_this_week
        /\ mail.ending_this_week \subseteq mail.active_this_week

C13_Witness ==
    /\ mail.outcome = "report"
    /\ \E i \in 1..Len(mail.tasks) :
         /\ mail.tasks[i].Days < 0
         /\ i \in mail.starting_today \cap mail.ending_today
         /\ i \in mail.active_today \cap mail.active_this_week
    /\ \E i \in 1..Len(mail.tasks) :
         /\ i \in mail.starting_this_week \cap mail.ending_this_week
         /\ i \in mail.active_this_week
         /\ i \notin mail.active_today

====
